---- MODULE Spec2Model ----
(***************************************************************************)
(* Model of src/server.js: a turn-based narrative game server.  A game row *)
(* and its message rows live in two SQLite tables; every turn forwards the *)
(* per-branch conversation to two chat-completion backends at once and     *)
(* stores both replies.                                                    *)
(*                                                                         *)
(* The server is a single-threaded event loop: a handler runs until its    *)
(* next await/callback boundary.  Every database statement and every       *)
(* settling of a backend call is one atomic step of the model; the code    *)
(* that runs synchronously after it (up to the next statement being        *)
(* issued, or the response being sent) belongs to the same step.           *)
(***************************************************************************)
EXTENDS Integers, Sequences, FiniteSets

(***************************************************************************)
(* Bounds of the model.                                                    *)
(***************************************************************************)
\* number of HTTP requests that can be in flight at the same time
MaxReq == 2
\* number of game rows ever inserted (ids are AUTOINCREMENT, never reused)
MaxGames == 1
\* number of message rows ever inserted
MaxMsgs == 6
\* number of database statements that end in an error
MaxFail == 1

Req == 1..MaxReq
GameIds == 1..MaxGames

\* inputs of the requests and outcomes of the backends: backend b answers
\* with a text of Texts[b] or rejects with a reason; a statement succeeds
\* or fails with an error of SqlErrors
Prompts == {"P1", "P2"}
UserActions == {"a"}
Texts == <<{"x1"}, {"x2"}>>
Reasons == {"Error: boom"}
SqlErrors == {"SQLITE_ERROR"}

VARIABLES
    games,        \* table games, rows in id order: [id, created_at, system_prompt]
    messages,     \* table messages, rows in id order: [id, game_id, dm_id, role, content]
    gamesSeq,     \* AUTOINCREMENT counter of games (largest id ever used)
    clock,        \* the second of the latest insert into games (0: none yet)
    messagesSeq,  \* AUTOINCREMENT counter of messages
    req,          \* per in-flight request: the handler's position and locals
    sqlFailures   \* number of database statements that have failed so far

vars == <<games, messages, gamesSeq, clock, messagesSeq, req, sqlFailures>>

(***************************************************************************)
(* Values of the handlers' locals.                                         *)
(***************************************************************************)
Undefined == [undefined |-> TRUE]
NoRes == [status |-> 0, body |-> Undefined]
Pending == [status |-> "pending"]
Fulfilled(v) == [status |-> "fulfilled", value |-> v]
Rejected(e) == [status |-> "rejected", reason |-> e]

\* (the source's accented letters are written without their accents)
introTrigger == "Narra la introduccion de la aventura basandote en el contexto proporcionado. Se breve y directo."

Idle ==
    [kind |-> "none", pc |-> "idle", gameId |-> 0, systemPrompt |-> "",
     userAction |-> "", game |-> Undefined,
     history1 |-> <<>>, history2 |-> <<>>,
     calls |-> <<>>, results |-> <<>>, saved |-> <<>>, log |-> <<>>,
     res |-> NoRes]

\* a slot can take a new request when no request is running in it
Free(r) == req[r].pc \in {"idle", "done"}

\* the insert without its bound parameter: the column is left empty
InsertGame_Default(tbl, seq, createdAt, systemPrompt) ==
    Append(tbl, [id |-> seq + 1, created_at |-> createdAt, system_prompt |-> ""])

(***************************************************************************)
(* The store: the statements the handlers run, on the tables as values.    *)
(***************************************************************************)
\* INSERT INTO games (system_prompt) VALUES (?); this.lastID is seq + 1,
\* created_at defaults to CURRENT_TIMESTAMP, the second of the insert
InsertGame(tbl, seq, createdAt, systemPrompt) ==
    Append(tbl, [id |-> seq + 1, created_at |-> createdAt, system_prompt |-> systemPrompt])

\* the lookup through db.all: no row gives an empty, truthy result
SelectGame_All(tbl, id) ==
    LET Hit(g) == g.id = id
        rows == SelectSeq(tbl, Hit)
    IN  IF rows = <<>> THEN [system_prompt |-> ""]
        ELSE [system_prompt |-> rows[1].system_prompt]

\* SELECT system_prompt FROM games WHERE id = ?  (db.get: first row or undefined)
SelectGame(tbl, id) ==
    LET Hit(g) == g.id = id
        rows == SelectSeq(tbl, Hit)
    IN  IF rows = <<>> THEN Undefined
        ELSE [system_prompt |-> rows[1].system_prompt]

\* The connection never sets PRAGMA foreign_keys, so SQLite does not enforce
\* FOREIGN KEY(game_id) ... ON DELETE CASCADE: an insert for a game id
\* without a row succeeds, and deleting a game row removes no message.

\* the insert with the branch column left out of the statement
InsertMessage_NoBranch(tbl, seq, gameId, dmId, role, content) ==
    Append(tbl, [id |-> seq + 1, game_id |-> gameId, dm_id |-> 0,
                 role |-> role, content |-> content])

\* INSERT INTO messages (game_id, dm_id, role, content) VALUES (?, ?, ?, ?)
InsertMessage(tbl, seq, gameId, dmId, role, content) ==
    Append(tbl, [id |-> seq + 1, game_id |-> gameId, dm_id |-> dmId,
                 role |-> role, content |-> content])

\* the WHERE clause without its branch condition: every row of the game
HistoryRows_AllBranches(tbl, gameId, dmId) ==
    LET Hit(m) == m.game_id = gameId
    IN  SelectSeq(tbl, Hit)

\* the WHERE clause without its parentheses: AND binds tighter than OR, so
\* the branch's rows of every game are kept
HistoryRows_Precedence(tbl, gameId, dmId) ==
    LET Hit(m) == (m.game_id = gameId /\ m.dm_id = 0) \/ m.dm_id = dmId
    IN  SelectSeq(tbl, Hit)

\* the WHERE clause without "dm_id = 0 OR": the branch's own rows only
HistoryRows_OwnOnly(tbl, gameId, dmId) ==
    LET Hit(m) == m.game_id = gameId /\ m.dm_id = dmId
    IN  SelectSeq(tbl, Hit)

\* the rows getHistory's WHERE clause keeps, in ORDER BY id ASC order
HistoryRows(tbl, gameId, dmId) ==
    LET Hit(m) == m.game_id = gameId /\ (m.dm_id = 0 \/ m.dm_id = dmId)
    IN  SelectSeq(tbl, Hit)

\* SELECT role, content FROM messages
\*   WHERE game_id = ? AND (dm_id = 0 OR dm_id = ?) ORDER BY id ASC
getHistory(tbl, gameId, dmId) ==
    LET rows == HistoryRows(tbl, gameId, dmId)
    IN  [i \in 1..Len(rows) |-> [role |-> rows[i].role, content |-> rows[i].content]]

\* SELECT * FROM messages WHERE game_id = ? ORDER BY timestamp ASC.
\* timestamp is CURRENT_TIMESTAMP at insert, so it never decreases with id;
\* rows of one second come back in rowid order.
SelectMessages(tbl, gameId) ==
    LET Hit(m) == m.game_id = gameId
    IN  SelectSeq(tbl, Hit)

\* CURRENT_TIMESTAMP at an insert into games, as a count of seconds: the
\* second of the latest insert or the one after it (a longer wait orders the
\* rows the same way); the first insert is in second 1
Seconds(latest) == IF latest = 0 THEN {1} ELSE {latest, latest + 1}

\* SELECT id, created_at, system_prompt FROM games ORDER BY created_at DESC.
\* created_at has a resolution of one second; rows of one second come back
\* in the order of the table scan, ascending id.
SelectGames(tbl) ==
    LET Rank(i) == Cardinality({j \in 1..Len(tbl) :
                        \/ tbl[j].created_at > tbl[i].created_at
                        \/ tbl[j].created_at = tbl[i].created_at /\ j <= i})
    IN  [k \in 1..Len(tbl) |-> tbl[CHOOSE i \in 1..Len(tbl) : Rank(i) = k]]

\* the delete keyed on the message's own id instead of its game's
DeleteMessages_ById(tbl, id) ==
    LET Keep(m) == m.id # id
    IN  SelectSeq(tbl, Keep)

\* DELETE FROM messages WHERE game_id = ?
DeleteMessages(tbl, id) ==
    LET Keep(m) == m.game_id # id
    IN  SelectSeq(tbl, Keep)

\* DELETE FROM games WHERE id = ?
DeleteGame(tbl, id) ==
    LET Keep(g) == g.id # id
    IN  SelectSeq(tbl, Keep)

\* this.changes of the DELETE FROM games statement
Changes(tbl, id) == Len(tbl) - Len(DeleteGame(tbl, id))

(***************************************************************************)
(* The two call builders: the message sequence handed to the backend.      *)
(***************************************************************************)
\* the loop without the role rewrite: stored roles are passed through
PushHistory_Keep(history) ==
    [i \in 1..Len(history) |-> [role |-> history[i].role, content |-> history[i].content]]

\* history.forEach: role 'model' becomes 'assistant', any other role is kept
PushHistory(history) ==
    [i \in 1..Len(history) |->
        [role |-> IF history[i].role = "model" THEN "assistant" ELSE history[i].role,
         content |-> history[i].content]]

callLlamaFastViaGroq(system, history, currentInput) ==
    [model |-> "llama-3.1-8b-instant",
     messages |-> <<[role |-> "system", content |-> system]>>
                  \o PushHistory(history)
                  \o <<[role |-> "user", content |-> currentInput]>>]

callLlamaSmartViaGroq(system, history, currentInput) ==
    [model |-> "llama-3.3-70b-versatile",
     messages |-> <<[role |-> "system", content |-> system]>>
                  \o PushHistory(history)
                  \o <<[role |-> "user", content |-> currentInput]>>]

\* the intro placeholder replaced by the turn's "Error: " + reason
Intro_Reason(result) ==
    IF result.status = "fulfilled" THEN result.value ELSE "Error: " \o result.reason

\* the turn placeholder without its "Error: " prefix
Response_Raw(result) ==
    IF result.status = "fulfilled" THEN result.value ELSE result.reason

\* what a settled call contributes to the intro and to a turn
Intro(result) ==
    IF result.status = "fulfilled" THEN result.value ELSE "Error generando intro."

Response(result) ==
    IF result.status = "fulfilled" THEN result.value ELSE "Error: " \o result.reason

\* Promise.allSettled has resolved: neither call is pending any more
Settled(r) ==
    /\ Len(req[r].results) = 2
    /\ req[r].results[1].status # "pending"
    /\ req[r].results[2].status # "pending"

\* message rows the running requests will still insert
Owed(r) ==
    LET q == req[r]
    IN  IF q.kind \notin {"start", "turn"} THEN 0
        ELSE IF q.pc = "saveUser" THEN 3
        ELSE IF q.pc \in {"history1", "history2", "calls", "save1"} THEN 2
        ELSE IF q.pc = "save2" THEN 1
        ELSE 0

RECURSIVE SumOwed(_)
SumOwed(S) ==
    IF S = {} THEN 0
    ELSE LET r == CHOOSE x \in S : TRUE IN Owed(r) + SumOwed(S \ {r})

\* n more rows fit when at most maxMsgs rows are ever inserted
RoomIn(maxMsgs, n) == messagesSeq + SumOwed(Req) + n <= maxMsgs
Room(n) == RoomIn(MaxMsgs, n)

(***************************************************************************)
(* Outcome of one database statement: the err argument of its callback.    *)
(***************************************************************************)
NoErr == "null"
SqlOutcomes == {NoErr} \cup SqlErrors

\* the statement runs and calls back with err
Statement(err) ==
    IF err = NoErr THEN UNCHANGED sqlFailures
    ELSE /\ sqlFailures < MaxFail
         /\ sqlFailures' = sqlFailures + 1

\* the handler sends this response and ends; the slot keeps the finished
\* request's locals until the next request takes it
Respond(q, status, body) ==
    [q EXCEPT !.pc = "done", !.res = [status |-> status, body |-> body]]

\* the catch block of a handler: console.error(..., error), then a 500
Caught(q, error, message) ==
    Respond([q EXCEPT !.log = Append(q.log, error)], 500, [error |-> message])

Init ==
    /\ games = <<>>
    /\ messages = <<>>
    /\ gamesSeq = 0
    /\ clock = 0
    /\ messagesSeq = 0
    /\ req = [r \in Req |-> Idle]
    /\ sqlFailures = 0

(***************************************************************************)
(* POST /api/start                                                         *)
(***************************************************************************)
\* the INSERT INTO games statement and its callback up to Promise.allSettled
StartInsertIn(maxGames, maxMsgs, r, systemPrompt, now, err) ==
    /\ Statement(err)
    /\ Free(r)
    /\ gamesSeq < maxGames
    /\ RoomIn(maxMsgs, 2)
    /\ LET q == [Idle EXCEPT !.kind = "start", !.systemPrompt = systemPrompt]
       IN  IF err # NoErr
           THEN /\ req' = [req EXCEPT ![r] = Respond(q, 500, [error |-> err])]
                /\ UNCHANGED <<games, gamesSeq, clock>>
           ELSE /\ games' = InsertGame(games, gamesSeq, now, systemPrompt)
                /\ clock' = now
                /\ gamesSeq' = gamesSeq + 1
                /\ req' = [req EXCEPT ![r] =
                       [q EXCEPT !.pc = "calls",
                                 !.gameId = gamesSeq + 1,
                                 !.calls = <<callLlamaFastViaGroq(systemPrompt, <<>>, introTrigger),
                                             callLlamaSmartViaGroq(systemPrompt, <<>>, introTrigger)>>,
                                 !.results = <<Pending, Pending>>]]
    /\ UNCHANGED <<messages, messagesSeq>>

StartInsert(r, systemPrompt, now, err) ==
    StartInsertIn(MaxGames, MaxMsgs, r, systemPrompt, now, err)

\* await saveMessage(gameId, 1, 'model', intro1)
StartSave1(r, err) ==
    /\ Statement(err)
    /\ req[r].kind = "start"
    /\ req[r].pc = "save1"
    /\ LET q == req[r]
           intro1 == Intro(q.results[1])
       IN  IF err # NoErr
           THEN /\ req' = [req EXCEPT ![r] =
                       Caught(q, err, "Error generando introduccion")]
                /\ UNCHANGED <<messages, messagesSeq>>
           ELSE /\ messages' = InsertMessage(messages, messagesSeq, q.gameId, 1, "model", intro1)
                /\ messagesSeq' = messagesSeq + 1
                /\ req' = [req EXCEPT ![r] =
                       [q EXCEPT !.pc = "save2",
                                 !.saved = Append(q.saved, messages'[Len(messages')])]]
    /\ UNCHANGED <<games, gamesSeq, clock>>

\* await saveMessage(gameId, 2, 'model', intro2); res.json({gameId, message, dm1, dm2})
StartSave2(r, err) ==
    /\ Statement(err)
    /\ req[r].kind = "start"
    /\ req[r].pc = "save2"
    /\ LET q == req[r]
           intro1 == Intro(q.results[1])
           intro2 == Intro(q.results[2])
       IN  IF err # NoErr
           THEN /\ req' = [req EXCEPT ![r] =
                       Caught(q, err, "Error generando introduccion")]
                /\ UNCHANGED <<messages, messagesSeq>>
           ELSE /\ messages' = InsertMessage(messages, messagesSeq, q.gameId, 2, "model", intro2)
                /\ messagesSeq' = messagesSeq + 1
                /\ req' = [req EXCEPT ![r] =
                       Respond([q EXCEPT !.saved = Append(q.saved, messages'[Len(messages')])],
                               200,
                               [gameId |-> q.gameId, message |-> "Partida iniciada",
                                dm1 |-> intro1, dm2 |-> intro2])]
    /\ UNCHANGED <<games, gamesSeq, clock>>

(***************************************************************************)
(* The backends: one of the two outstanding calls of a request settles.    *)
(* When the second one settles Promise.allSettled resolves and the handler *)
(* goes on to its first saveMessage.                                       *)
(***************************************************************************)
\* Promise.all in place of Promise.allSettled: the first rejection ends the
\* wait and the handler's catch answers 500
Settle_FailFast(r, b, outcome) ==
    /\ req[r].pc = "calls"
    /\ req[r].results[b].status = "pending"
    /\ LET q == [req[r] EXCEPT !.results[b] = outcome]
           other == q.results[3 - b]
       IN  req' = [req EXCEPT ![r] =
               IF outcome.status = "rejected"
               THEN Respond(q, 500, [error |-> outcome.reason])
               ELSE [q EXCEPT !.pc = IF other.status # "pending" THEN "save1" ELSE "calls"]]
    /\ UNCHANGED <<games, messages, gamesSeq, clock, messagesSeq, sqlFailures>>

\* a rejected call is sent once more before its rejection is taken
Settle_Retry(r, b, outcome) ==
    /\ req[r].pc = "calls"
    /\ req[r].results[b].status = "pending"
    /\ LET q == req[r]
           other == q.results[3 - b]
       IN  req' = [req EXCEPT ![r] =
               IF outcome.status = "rejected" /\ Len(q.calls) = 2
               THEN [q EXCEPT !.calls = Append(q.calls, q.calls[b])]
               ELSE [q EXCEPT !.results[b] = outcome,
                              !.pc = IF other.status # "pending" THEN "save1" ELSE "calls"]]
    /\ UNCHANGED <<games, messages, gamesSeq, clock, messagesSeq, sqlFailures>>

Settle(r, b, outcome) ==
    /\ req[r].pc = "calls"
    /\ req[r].results[b].status = "pending"
    /\ LET q == req[r]
           other == q.results[3 - b]
       IN  req' = [req EXCEPT ![r] =
               [q EXCEPT !.results[b] = outcome,
                         !.pc = IF other.status # "pending" THEN "save1" ELSE "calls"]]
    /\ UNCHANGED <<games, messages, gamesSeq, clock, messagesSeq, sqlFailures>>

\* backend b answers with a text or fails with a reason
Outcomes(b) == {Fulfilled(v) : v \in Texts[b]} \cup {Rejected(e) : e \in Reasons}

(***************************************************************************)
(* POST /api/turn                                                          *)
(***************************************************************************)
\* the lookup behind a per-game lock: no turn begins while another turn of
\* the same game is running
TurnLookupIn_Locked(maxMsgs, r, gameId, userAction, err) ==
    /\ Statement(err)
    /\ Free(r)
    /\ \A o \in Req :
          ~(req[o].kind = "turn" /\ req[o].pc \notin {"idle", "done"} /\ req[o].gameId = gameId)
    /\ LET q == [Idle EXCEPT !.kind = "turn", !.gameId = gameId, !.userAction = userAction]
           game == SelectGame(games, gameId)
       IN  IF err # NoErr
           THEN req' = [req EXCEPT ![r] = Caught(q, err, err)]
           ELSE IF game = Undefined
           THEN req' = [req EXCEPT ![r] =
                    Respond(q, 404, [error |-> "Partida no encontrada"])]
           ELSE /\ RoomIn(maxMsgs, 3)
                /\ req' = [req EXCEPT ![r] = [q EXCEPT !.pc = "saveUser", !.game = game]]
    /\ UNCHANGED <<games, messages, gamesSeq, clock, messagesSeq>>

\* db.get of the game row; 404 when there is none
TurnLookupIn(maxMsgs, r, gameId, userAction, err) ==
    /\ Statement(err)
    /\ Free(r)
    /\ LET q == [Idle EXCEPT !.kind = "turn", !.gameId = gameId, !.userAction = userAction]
           game == SelectGame(games, gameId)
       IN  IF err # NoErr
           THEN req' = [req EXCEPT ![r] = Caught(q, err, err)]
           ELSE IF game = Undefined
           THEN req' = [req EXCEPT ![r] =
                    Respond(q, 404, [error |-> "Partida no encontrada"])]
           ELSE /\ RoomIn(maxMsgs, 3)
                /\ req' = [req EXCEPT ![r] = [q EXCEPT !.pc = "saveUser", !.game = game]]
    /\ UNCHANGED <<games, messages, gamesSeq, clock, messagesSeq>>

TurnLookup(r, gameId, userAction, err) ==
    TurnLookupIn(MaxMsgs, r, gameId, userAction, err)

\* await saveMessage(gameId, 0, 'user', userAction)
TurnSaveUser(r, err) ==
    /\ Statement(err)
    /\ req[r].kind = "turn"
    /\ req[r].pc = "saveUser"
    /\ LET q == req[r]
       IN  IF err # NoErr
           THEN /\ req' = [req EXCEPT ![r] = Caught(q, err, err)]
                /\ UNCHANGED <<messages, messagesSeq>>
           ELSE /\ messages' = InsertMessage(messages, messagesSeq, q.gameId, 0, "user", q.userAction)
                /\ messagesSeq' = messagesSeq + 1
                /\ req' = [req EXCEPT ![r] =
                       [q EXCEPT !.pc = "history1",
                                 !.saved = Append(q.saved, messages'[Len(messages')])]]
    /\ UNCHANGED <<games, gamesSeq, clock>>

\* const history1 = await getHistory(gameId, 1)
TurnHistory1(r, err) ==
    /\ Statement(err)
    /\ req[r].kind = "turn"
    /\ req[r].pc = "history1"
    /\ LET q == req[r]
       IN  IF err # NoErr
           THEN req' = [req EXCEPT ![r] = Caught(q, err, err)]
           ELSE req' = [req EXCEPT ![r] =
                    [q EXCEPT !.pc = "history2",
                              !.history1 = getHistory(messages, q.gameId, 1)]]
    /\ UNCHANGED <<games, messages, gamesSeq, clock, messagesSeq>>

\* const history2 = await getHistory(gameId, 2); both calls are issued
TurnHistory2(r, err) ==
    /\ Statement(err)
    /\ req[r].kind = "turn"
    /\ req[r].pc = "history2"
    /\ LET q == req[r]
           history2 == getHistory(messages, q.gameId, 2)
       IN  IF err # NoErr
           THEN req' = [req EXCEPT ![r] = Caught(q, err, err)]
           ELSE req' = [req EXCEPT ![r] =
                    [q EXCEPT !.pc = "calls",
                              !.history2 = history2,
                              !.calls = <<callLlamaFastViaGroq(q.game.system_prompt, q.history1, q.userAction),
                                          callLlamaSmartViaGroq(q.game.system_prompt, history2, q.userAction)>>,
                              !.results = <<Pending, Pending>>]]
    /\ UNCHANGED <<games, messages, gamesSeq, clock, messagesSeq>>

\* the two reply inserts issued independently: a failed branch-1 insert does
\* not end the handler, the branch-2 insert follows
TurnSave1_Independent(r, err) ==
    /\ Statement(err)
    /\ req[r].kind = "turn"
    /\ req[r].pc = "save1"
    /\ LET q == req[r]
           response1 == Response(q.results[1])
       IN  IF err # NoErr
           THEN /\ req' = [req EXCEPT ![r] =
                       [q EXCEPT !.pc = "save2", !.log = Append(q.log, err)]]
                /\ UNCHANGED <<messages, messagesSeq>>
           ELSE /\ messages' = InsertMessage(messages, messagesSeq, q.gameId, 1, "model", response1)
                /\ messagesSeq' = messagesSeq + 1
                /\ req' = [req EXCEPT ![r] =
                       [q EXCEPT !.pc = "save2",
                                 !.saved = Append(q.saved, messages'[Len(messages')])]]
    /\ UNCHANGED <<games, gamesSeq, clock>>

\* await saveMessage(gameId, 1, 'model', response1)
TurnSave1(r, err) ==
    /\ Statement(err)
    /\ req[r].kind = "turn"
    /\ req[r].pc = "save1"
    /\ LET q == req[r]
           response1 == Response(q.results[1])
       IN  IF err # NoErr
           THEN /\ req' = [req EXCEPT ![r] = Caught(q, err, err)]
                /\ UNCHANGED <<messages, messagesSeq>>
           ELSE /\ messages' = InsertMessage(messages, messagesSeq, q.gameId, 1, "model", response1)
                /\ messagesSeq' = messagesSeq + 1
                /\ req' = [req EXCEPT ![r] =
                       [q EXCEPT !.pc = "save2",
                                 !.saved = Append(q.saved, messages'[Len(messages')])]]
    /\ UNCHANGED <<games, gamesSeq, clock>>

\* await saveMessage(gameId, 2, 'model', response2); res.json({dm1, dm2})
TurnSave2(r, err) ==
    /\ Statement(err)
    /\ req[r].kind = "turn"
    /\ req[r].pc = "save2"
    /\ LET q == req[r]
           response1 == Response(q.results[1])
           response2 == Response(q.results[2])
       IN  IF err # NoErr
           THEN /\ req' = [req EXCEPT ![r] = Caught(q, err, err)]
                /\ UNCHANGED <<messages, messagesSeq>>
           ELSE /\ messages' = InsertMessage(messages, messagesSeq, q.gameId, 2, "model", response2)
                /\ messagesSeq' = messagesSeq + 1
                /\ req' = [req EXCEPT ![r] =
                       Respond([q EXCEPT !.saved = Append(q.saved, messages'[Len(messages')])],
                               200, [dm1 |-> response1, dm2 |-> response2])]
    /\ UNCHANGED <<games, gamesSeq, clock>>

(***************************************************************************)
(* GET /api/history/:gameId, GET /api/games                                *)
(***************************************************************************)
\* the handler with an existence check on the game row before the SELECT
History_Checked(r, gameId, err) ==
    /\ Statement(err)
    /\ Free(r)
    /\ LET q == [Idle EXCEPT !.kind = "history", !.gameId = gameId]
       IN  IF err # NoErr
           THEN req' = [req EXCEPT ![r] = Respond(q, 500, [error |-> err])]
           ELSE IF SelectGame(games, gameId) = Undefined
           THEN req' = [req EXCEPT ![r] =
                    Respond(q, 404, [error |-> "Partida no encontrada"])]
           ELSE req' = [req EXCEPT ![r] = Respond(q, 200, SelectMessages(messages, gameId))]
    /\ UNCHANGED <<games, messages, gamesSeq, clock, messagesSeq>>

\* db.all of the game's rows; no look at the games table
History(r, gameId, err) ==
    /\ Statement(err)
    /\ Free(r)
    /\ LET q == [Idle EXCEPT !.kind = "history", !.gameId = gameId]
       IN  IF err # NoErr
           THEN req' = [req EXCEPT ![r] = Respond(q, 500, [error |-> err])]
           ELSE req' = [req EXCEPT ![r] = Respond(q, 200, SelectMessages(messages, gameId))]
    /\ UNCHANGED <<games, messages, gamesSeq, clock, messagesSeq>>

Games(r, err) ==
    /\ Statement(err)
    /\ Free(r)
    /\ LET q == [Idle EXCEPT !.kind = "games"]
       IN  IF err # NoErr
           THEN req' = [req EXCEPT ![r] = Respond(q, 500, [error |-> err])]
           ELSE req' = [req EXCEPT ![r] = Respond(q, 200, SelectGames(games))]
    /\ UNCHANGED <<games, messages, gamesSeq, clock, messagesSeq>>

(***************************************************************************)
(* DELETE /api/games/:id                                                   *)
(***************************************************************************)
\* DELETE FROM messages; its error is logged and the handler goes on
DeleteMsgs(r, id, err) ==
    /\ Statement(err)
    /\ Free(r)
    /\ messages' = IF err # NoErr THEN messages ELSE DeleteMessages(messages, id)
    /\ req' = [req EXCEPT ![r] =
           [Idle EXCEPT !.kind = "delete", !.gameId = id, !.pc = "deleteGame",
                        !.log = IF err # NoErr THEN <<err>> ELSE <<>>]]
    /\ UNCHANGED <<games, gamesSeq, clock, messagesSeq>>

\* DELETE FROM games; res.json({message, deleted: this.changes})
DeleteGameRow(r, err) ==
    /\ Statement(err)
    /\ req[r].kind = "delete"
    /\ req[r].pc = "deleteGame"
    /\ LET q == req[r]
       IN  IF err # NoErr
           THEN /\ req' = [req EXCEPT ![r] = Respond(q, 500, [error |-> err])]
                /\ UNCHANGED games
           ELSE /\ games' = DeleteGame(games, q.gameId)
                /\ req' = [req EXCEPT ![r] =
                       Respond(q, 200, [message |-> "Partida eliminada",
                                        deleted |-> Changes(games, q.gameId)])]
    /\ UNCHANGED <<messages, gamesSeq, clock, messagesSeq>>

(***************************************************************************)
(* The server                                                              *)
(***************************************************************************)
Next ==
    \/ \E r \in Req, p \in Prompts, t \in Seconds(clock), e \in SqlOutcomes :
          StartInsert(r, p, t, e)
    \/ \E r \in Req, e \in SqlOutcomes : StartSave1(r, e)
    \/ \E r \in Req, e \in SqlOutcomes : StartSave2(r, e)
    \/ \E r \in Req, b \in 1..2 : \E o \in Outcomes(b) : Settle(r, b, o)
    \/ \E r \in Req, g \in GameIds, a \in UserActions, e \in SqlOutcomes : TurnLookup(r, g, a, e)
    \/ \E r \in Req, e \in SqlOutcomes : TurnSaveUser(r, e)
    \/ \E r \in Req, e \in SqlOutcomes : TurnHistory1(r, e)
    \/ \E r \in Req, e \in SqlOutcomes : TurnHistory2(r, e)
    \/ \E r \in Req, e \in SqlOutcomes : TurnSave1(r, e)
    \/ \E r \in Req, e \in SqlOutcomes : TurnSave2(r, e)
    \/ \E r \in Req, g \in GameIds, e \in SqlOutcomes : History(r, g, e)
    \/ \E r \in Req, e \in SqlOutcomes : Games(r, e)
    \/ \E r \in Req, g \in GameIds, e \in SqlOutcomes : DeleteMsgs(r, g, e)
    \/ \E r \in Req, e \in SqlOutcomes : DeleteGameRow(r, e)

Spec == Init /\ [][Next]_vars

(***************************************************************************)
(* Properties                                                              *)
(***************************************************************************)
Running(r) == req[r].pc \notin {"idle", "done"}
Answered(r, kind, status) ==
    /\ req[r].kind = kind
    /\ req[r].pc = "done"
    /\ req[r].res.status = status

\* the message rows this step inserts: rows of messages' with a fresh id
NewRows == {messages'[i] : i \in {j \in 1..Len(messages') : messages'[j].id > messagesSeq}}
\* the rows the request in slot r records as saved by it in this step
NewSaved(r) ==
    IF req'[r].kind = req[r].kind /\ Len(req'[r].saved) >= Len(req[r].saved) /\ Running(r)
    THEN {req'[r].saved[i] : i \in (Len(req[r].saved) + 1)..Len(req'[r].saved)}
    ELSE {}

\* C1: a turn answered 200 has inserted exactly three rows for its game, in
\* ascending id order: the branch-0 user message carrying its input, then a
\* branch-1 and a branch-2 model message, whatever the outcome of the two
\* calls; and every row a step inserts is the one row the stepping start or
\* turn saves, so a turn adds no other message.
C1_TurnAppendsThree ==
    [][ /\ \A r \in Req : Answered(r, "turn", 200)' =>
              LET q == req'[r]
              IN  /\ Len(q.saved) = 3
                  /\ \A i \in 1..3 : q.saved[i].game_id = q.gameId
                  /\ q.saved[1].dm_id = 0 /\ q.saved[1].role = "user"
                  /\ q.saved[1].content = q.userAction
                  /\ q.saved[2].dm_id = 1 /\ q.saved[2].role = "model"
                  /\ q.saved[3].dm_id = 2 /\ q.saved[3].role = "model"
                  /\ q.saved[1].id < q.saved[2].id /\ q.saved[2].id < q.saved[3].id
        /\ \A r \in Req : req'[r].kind = "turn" => Len(req'[r].saved) <= 3
        /\ Cardinality(NewRows) <= 1
        /\ NewRows = UNION {NewSaved(r) : r \in Req}
      ]_vars

\* a turn was answered 200 although its first call failed and its second succeeded
C1_Witness ==
    \E r \in Req :
        /\ Answered(r, "turn", 200)
        /\ req[r].results[1].status = "rejected"
        /\ req[r].results[2].status = "fulfilled"
        /\ Len(req[r].saved) = 3

\* C2: a turn whose calls fail (one or both) is still answered 200; a failed
\* branch's value is "Error: " followed by the reason, a fulfilled branch's
\* value is the model's text; both are stored as role-'model' rows of their
\* branch and dm1/dm2 are the stored contents.  A turn answered with an error
\* status was answered 404 or failed on a database statement.
C2_PartialFailure ==
    \A r \in Req :
        /\ Answered(r, "turn", 200) =>
              \A b \in 1..2 :
                  LET result == req[r].results[b]
                      row == req[r].saved[b + 1]
                      dm == IF b = 1 THEN req[r].res.body.dm1 ELSE req[r].res.body.dm2
                  IN  /\ result.status \in {"fulfilled", "rejected"}
                      /\ result.status = "fulfilled" => dm = result.value /\ dm \in Texts[b]
                      /\ result.status = "rejected" =>
                             \E e \in Reasons : result.reason = e /\ dm = "Error: " \o e
                      /\ row.content = dm /\ row.role = "model" /\ row.dm_id = b
        /\ (req[r].kind = "turn" /\ req[r].pc = "done" /\ req[r].res.status # 200) =>
              \/ req[r].res.status = 404 /\ req[r].results = <<>>
              \/ req[r].res.status = 500 /\ req[r].res.body.error \in SqlErrors

\* a turn answered 200 with an error string for branch 1 and a real text for branch 2
C2_Witness ==
    \E r \in Req :
        /\ Answered(r, "turn", 200)
        /\ req[r].results[1].status = "rejected"
        /\ req[r].res.body.dm1 = "Error: Error: boom"
        /\ req[r].res.body.dm2 = "x2"

\* C3: a start issues both intro calls after the game row is inserted, with
\* an empty history and the trigger instruction as user input; a start
\* answered 200 has stored exactly two role-'model' rows for the new game,
\* branch 1 then branch 2, no branch-0 row, and returns the new game id and
\* the stored contents as dm1/dm2, whatever the outcome of the calls.
C3_StartContract ==
    \A r \in Req :
        /\ (req[r].kind = "start" /\ req[r].calls # <<>>) =>
              /\ req[r].gameId \in 1..gamesSeq
              /\ \A b \in 1..2 :
                    req[r].calls[b].messages =
                        <<[role |-> "system", content |-> req[r].systemPrompt],
                          [role |-> "user", content |-> introTrigger]>>
        /\ (req[r].kind = "start" /\ req[r].saved # <<>>) =>
              /\ Settled(r)
              /\ req[r].calls # <<>>
        /\ Answered(r, "start", 200) =>
              LET q == req[r]
              IN  /\ Len(q.saved) = 2
                  /\ q.res.body.gameId = q.gameId
                  /\ q.saved[1].id < q.saved[2].id
                  /\ \A b \in 1..2 :
                        LET dm == IF b = 1 THEN q.res.body.dm1 ELSE q.res.body.dm2
                        IN  /\ q.saved[b].game_id = q.gameId
                            /\ q.saved[b].dm_id = b
                            /\ q.saved[b].role = "model"
                            /\ q.saved[b].content = dm
                            /\ q.results[b].status = "fulfilled" => dm = q.results[b].value
                            /\ q.results[b].status = "rejected" => dm = "Error generando intro."

\* a start answered 200 whose first intro call failed and whose second succeeded
C3_Witness ==
    \E r \in Req :
        /\ Answered(r, "start", 200)
        /\ req[r].results[1].status = "rejected"
        /\ req[r].results[2].status = "fulfilled"
        /\ req[r].res.body.dm1 = "Error generando intro."
        /\ req[r].res.body.dm2 = "x2"

HasGame(tbl, g) == \E i \in 1..Len(tbl) : tbl[i].id = g
HasMessages(tbl, g) == \E i \in 1..Len(tbl) : tbl[i].game_id = g

\* slot r takes a new request of this kind in this step
Begins(r, kind) ==
    /\ Free(r)
    /\ req'[r] # req[r]
    /\ req'[r].kind = kind

\* the original statement of C4, for runs without any database error: once a
\* delete of g is answered 200, no message of g is stored
C4_Claim ==
    \A r \in Req :
        (Answered(r, "delete", 200) /\ sqlFailures = 0) =>
            ~HasMessages(messages, req[r].gameId)

\* game g was created, its row is gone, none of its messages is stored and no
\* start or turn that works on g is still running
Gone(g) ==
    /\ g <= gamesSeq
    /\ ~HasGame(games, g)
    /\ ~HasMessages(messages, g)
    /\ \A r \in Req :
          (Running(r) /\ req[r].kind \in {"start", "turn"}) => req[r].gameId # g

\* C4 (amended): the delete's first statement, when it runs without error,
\* leaves no message of that game; and once the game is gone (no row, no
\* message, no start or turn for it in flight) it stays gone under every
\* further request, and every history fetch for it is answered with an
\* empty list.
C4_DeleteAmended ==
    [][ \A g \in GameIds :
          /\ (\E r \in Req : /\ Begins(r, "delete")
                             /\ req'[r].gameId = g
                             /\ sqlFailures' = sqlFailures)
                => ~HasMessages(messages', g)
          /\ Gone(g) => Gone(g)'
          /\ \A r \in Req :
                (Gone(g) /\ Begins(r, "history") /\ req'[r].gameId = g
                         /\ sqlFailures' = sqlFailures)
                => /\ req'[r].res.status = 200
                   /\ req'[r].res.body = <<>>
      ]_vars

\* a delete removed the game after messages had been stored, the game is
\* gone and a history fetch for it came back empty
C4_Witness ==
    \E r1, r2 \in Req :
        /\ Answered(r1, "delete", 200)
        /\ req[r1].res.body.deleted = 1
        /\ Answered(r2, "history", 200)
        /\ req[r2].gameId = req[r1].gameId
        /\ req[r2].res.body = <<>>
        /\ Gone(req[r1].gameId)
        /\ messagesSeq >= 2
        /\ sqlFailures = 0

\* C5: a turn for a game id without a row is answered at its lookup, 404
\* when the lookup statement succeeds, and changes nothing: no row is
\* inserted, no history is read, no call is issued and both tables and every
\* other request stay as they are.
C5_TurnNotFound ==
    [][ \A r \in Req :
          (Begins(r, "turn") /\ ~HasGame(games, req'[r].gameId)) =>
              /\ req'[r].pc = "done"
              /\ (sqlFailures' = sqlFailures) => req'[r].res.status = 404
              /\ (sqlFailures' # sqlFailures) => req'[r].res.status = 500
              /\ req'[r].saved = <<>>
              /\ req'[r].history1 = <<>> /\ req'[r].history2 = <<>>
              /\ req'[r].calls = <<>> /\ req'[r].results = <<>>
              /\ messages' = messages /\ games' = games
              /\ messagesSeq' = messagesSeq /\ gamesSeq' = gamesSeq
              /\ \A r2 \in Req \ {r} : req'[r2] = req[r2]
      ]_vars

\* a turn on a game that was created and deleted was answered 404
C5_Witness ==
    \E r \in Req :
        /\ Answered(r, "turn", 404)
        /\ req[r].gameId <= gamesSeq
        /\ ~HasGame(games, req[r].gameId)
        /\ req[r].saved = <<>>

Quiescent == \A r \in Req : ~Running(r)
InTable(tbl, row) == \E i \in 1..Len(tbl) : tbl[i] = row
Contains(history, role, content) ==
    \E i \in 1..Len(history) : history[i] = [role |-> role, content |-> content]

\* C6, as stated, for the calls of a turn in a run without database errors:
\* with no request in flight, after a turn answered 200 whose three rows are
\* stored and are the game's latest,
\* the stored rows of branches 0 and b, read with 'model' as 'assistant',
\* are the non-system messages backend b was given followed by its reply.
C6_Claim ==
    \A r \in Req : \A b \in 1..2 :
        ( /\ Quiescent
          /\ sqlFailures = 0
          /\ Answered(r, "turn", 200)
          /\ req[r].results[b].status = "fulfilled"
          /\ \A i \in 1..3 : InTable(messages, req[r].saved[i])
          /\ messages[Len(messages)] = req[r].saved[3] )
        => PushHistory(getHistory(messages, req[r].gameId, b))
             = Tail(req[r].calls[b].messages)
                 \o <<[role |-> "assistant", content |-> req[r].results[b].value]>>

\* rows of a history that belong to branch 0
Shared(rows) ==
    LET Zero(m) == m.dm_id = 0
    IN  SelectSeq(rows, Zero)
Users(history) ==
    LET IsUser(m) == m.role = "user"
    IN  SelectSeq(history, IsUser)

\* C7: in every store state and for every game, the histories of branch 1
\* and branch 2 hold the same branch-0 rows in the same order, every other
\* row of history(g, b) is a row of branch b, all rows are rows of g, and the
\* user messages of both assembled histories are the game's branch-0
\* contents in id order.
C7_SharedUserTurns ==
    \A g \in GameIds :
        LET h1 == HistoryRows(messages, g, 1)
            h2 == HistoryRows(messages, g, 2)
            zero == Shared(SelectMessages(messages, g))
        IN  /\ Shared(h1) = Shared(h2)
            /\ Shared(h1) = zero
            /\ \A i \in 1..Len(h1) : h1[i].dm_id \in {0, 1} /\ h1[i].game_id = g
            /\ \A i \in 1..Len(h2) : h2[i].dm_id \in {0, 2} /\ h2[i].game_id = g
            /\ \A i \in 1..Len(h1) : \A j \in 1..Len(h1) : i < j => h1[i].id < h1[j].id
            /\ Users(getHistory(messages, g, 1)) = Users(getHistory(messages, g, 2))
            /\ Users(getHistory(messages, g, 1))
                 = [i \in 1..Len(zero) |-> [role |-> "user", content |-> zero[i].content]]

\* a game holds a user message and replies of both branches that differ
C7_Witness ==
    \E g \in GameIds :
        /\ Len(Shared(HistoryRows(messages, g, 1))) >= 1
        /\ Len(HistoryRows(messages, g, 1)) >= 3
        /\ Len(HistoryRows(messages, g, 2)) >= 3
        /\ getHistory(messages, g, 1) # getHistory(messages, g, 2)

\* ids of the stored rows of game g visible to branch b
Visible(g, b) ==
    {messages[i].id : i \in {j \in 1..Len(messages) :
        messages[j].game_id = g /\ messages[j].dm_id \in {0, b}}}

\* the turn in slot r has read its first / its second history
Read1(r) == req[r].kind = "turn" /\ req[r].pc \in {"history2", "calls", "save1", "save2"}
Read2(r) == req[r].kind = "turn" /\ req[r].calls # <<>>

\* the original statement of C8, for runs without database errors: the
\* history given to each branch contains the turn's user message
C8_Claim ==
    \A r \in Req :
      sqlFailures = 0 =>
        /\ Read1(r) => Contains(req[r].history1, "user", req[r].userAction)
        /\ Read2(r) => Contains(req[r].history2, "user", req[r].userAction)

\* place of the row with this id among the rows of g visible to branch b
Place(g, b, id) == Cardinality({x \in Visible(g, b) : x <= id})

\* C8 (amended): a turn inserts its branch-0 user message before it reads a
\* history or issues a call; a history read while that row is still stored
\* holds it, at the row's place in id order, and so does the sequence built
\* from it.
C8_UserMessageFirst ==
    [][ \A r \in Req :
          /\ (req'[r].kind = "turn" /\ req'[r].pc \in {"history1", "history2", "calls", "save1", "save2"})
                => /\ Len(req'[r].saved) >= 1
                   /\ req'[r].saved[1].dm_id = 0
                   /\ req'[r].saved[1].content = req'[r].userAction
          /\ Read2(r)' => Len(req'[r].saved) >= 1
          /\ (req[r].kind = "turn" /\ req[r].pc = "history1" /\ req'[r].pc = "history2")
                => LET k == Place(req[r].gameId, 1, req[r].saved[1].id)
                   IN  InTable(messages, req[r].saved[1]) =>
                          /\ k \in 1..Len(req'[r].history1)
                          /\ req'[r].history1[k] = [role |-> "user", content |-> req[r].userAction]
          /\ (req[r].kind = "turn" /\ req[r].pc = "history2" /\ req'[r].pc = "calls")
                => LET k == Place(req[r].gameId, 2, req[r].saved[1].id)
                   IN  /\ InTable(messages, req[r].saved[1]) =>
                              /\ k \in 1..Len(req'[r].history2)
                              /\ req'[r].history2[k] = [role |-> "user", content |-> req[r].userAction]
                              /\ req'[r].calls[2].messages[k + 1]
                                   = [role |-> "user", content |-> req[r].userAction]
                       /\ Contains(req[r].history1, "user", req[r].userAction) =>
                              \E i \in 2..(Len(req'[r].calls[1].messages) - 1) :
                                  req'[r].calls[1].messages[i]
                                    = [role |-> "user", content |-> req[r].userAction]
      ]_vars

\* a turn issued both calls with its user message in both histories
C8_Witness ==
    \E r \in Req :
        /\ req[r].kind = "turn"
        /\ req[r].pc = "calls"
        /\ InTable(messages, req[r].saved[1])
        /\ Contains(req[r].history1, "user", req[r].userAction)
        /\ Contains(req[r].history2, "user", req[r].userAction)
        /\ Len(req[r].history1) >= 2

\* C9: while a call of a turn is pending the turn has stored no reply and
\* sent no response; a reply row is stored only once both calls have
\* settled; the 200 response follows both reply inserts; a finished turn
\* never has a pending call; and when one call has failed the other is still
\* awaited and can settle either way.
C9_TurnStateMachine ==
    \A r \in Req :
        req[r].kind = "turn" =>
            /\ (req[r].calls # <<>> /\ ~Settled(r)) =>
                  /\ req[r].pc = "calls"
                  /\ Len(req[r].saved) = 1
                  /\ req[r].res = NoRes
            /\ Len(req[r].saved) >= 2 => Settled(r)
            /\ req[r].pc \in {"save1", "save2"} => Settled(r) /\ req[r].res = NoRes
            /\ (req[r].pc = "done" /\ req[r].res.status = 200) =>
                  /\ Settled(r)
                  /\ Len(req[r].saved) = 3
            /\ (req[r].pc = "done" /\ req[r].calls # <<>>) => Settled(r)
            /\ \A b \in 1..2 :
                  (req[r].pc = "calls" /\ req[r].results[b].status = "rejected") =>
                      /\ req[r].results[3 - b].status = "pending"
                      /\ \A o \in Outcomes(3 - b) : ENABLED Settle(r, 3 - b, o)

\* the first call of a turn has failed while the second is still pending
C9_Witness ==
    \E r \in Req :
        /\ req[r].kind = "turn"
        /\ req[r].pc = "calls"
        /\ req[r].results[1].status = "rejected"
        /\ req[r].results[2].status = "pending"
        /\ Len(req[r].saved) = 1

\* the stored row with this id
Row(id) == messages[CHOOSE i \in 1..Len(messages) : messages[i].id = id]
\* the id of the k-th visible row in ascending id order
Kth(S, k) == CHOOSE id \in S : Cardinality({x \in S : x <= id}) = k
ModelRole(role) == IF role = "model" THEN "assistant" ELSE "user"

\* history is the rows with ids S as the model-facing role/content pairs
Reads(history, S) ==
    /\ Len(history) = Cardinality(S)
    /\ \A k \in 1..Len(history) :
          /\ history[k].content = Row(Kth(S, k)).content
          /\ history[k].role = Row(Kth(S, k)).role

\* sequence is: system prompt, the history with model as assistant, the input
Submits(sequence, system, history, currentInput) ==
    /\ Len(sequence) = Len(history) + 2
    /\ sequence[1] = [role |-> "system", content |-> system]
    /\ \A k \in 1..Len(history) :
          sequence[k + 1] = [role |-> ModelRole(history[k].role), content |-> history[k].content]
    /\ sequence[Len(sequence)] = [role |-> "user", content |-> currentInput]

\* C10: each history a turn reads is the game's stored rows of branch 0 and
\* b in ascending id order as role/content pairs; the sequence submitted to
\* backend b is the system message with the game's prompt, that history with
\* 'model' rewritten to 'assistant', and a final user message with the
\* current input; both builders give the same sequence for the same
\* arguments and name different backends.
C10_SubmittedSequence ==
    [][ \A r \in Req :
          /\ (req[r].kind = "turn" /\ req[r].pc = "history1" /\ req'[r].pc = "history2")
                => Reads(req'[r].history1, Visible(req[r].gameId, 1))
          /\ (req[r].kind = "turn" /\ req[r].pc = "history2" /\ req'[r].pc = "calls")
                => /\ Reads(req'[r].history2, Visible(req[r].gameId, 2))
                   /\ req'[r].history1 = req[r].history1
          /\ (req'[r].kind = "turn" /\ req'[r].calls # <<>>)
                => LET q == req'[r]
                   IN  /\ Submits(q.calls[1].messages, q.game.system_prompt, q.history1, q.userAction)
                       /\ Submits(q.calls[2].messages, q.game.system_prompt, q.history2, q.userAction)
                       /\ q.calls[1].model = "llama-3.1-8b-instant"
                       /\ q.calls[2].model = "llama-3.3-70b-versatile"
                       /\ \A h \in {q.history1, q.history2} :
                             callLlamaFastViaGroq(q.game.system_prompt, h, q.userAction).messages
                               = callLlamaSmartViaGroq(q.game.system_prompt, h, q.userAction).messages
          /\ (Begins(r, "turn") /\ req'[r].pc = "saveUser")
                => \E i \in 1..Len(games) :
                      /\ games[i].id = req'[r].gameId
                      /\ games[i].system_prompt = req'[r].game.system_prompt
      ]_vars

\* a turn submitted sequences that carry an earlier reply as assistant
\* message and differ between the branches
C10_Witness ==
    \E r \in Req :
        /\ req[r].kind = "turn"
        /\ req[r].pc = "calls"
        /\ Len(req[r].history1) >= 2
        /\ req[r].calls[1].messages[2].role = "assistant"
        /\ req[r].calls[2].messages[2].role = "assistant"
        /\ req[r].calls[1].messages # req[r].calls[2].messages

\* C11: a request in which a store operation failed (the handler logged the
\* statement's error, or answered it at once) ends with HTTP 500 and never
\* with a success response.
C11_Claim ==
    \A r \in Req :
        (req[r].pc = "done" /\ req[r].log # <<>>) => req[r].res.status = 500

\* the rows of tbl that are not the game g, in order
Others(tbl, g) ==
    LET Keep(row) == row.id # g
    IN  SelectSeq(tbl, Keep)

\* C12: a stored game row is never modified; the games table changes only
\* when a start appends one row, holding a fresh id and the prompt that
\* request supplied, or when a delete's second statement removes the rows of
\* its id; a turn keeps the prompt it read from the game row and sends it as
\* the system message to both backends; GET /api/games returns every stored
\* row with that prompt, latest second first and by id within a second.
C12_PromptFixed ==
    [][ /\ \A i \in 1..Len(games), j \in 1..Len(games') :
              games'[j].id = games[i].id => games'[j] = games[i]
        /\ games' # games =>
              \E r \in Req :
                  \/ /\ Begins(r, "start")
                     /\ Len(games') = Len(games) + 1
                     /\ SubSeq(games', 1, Len(games)) = games
                     /\ ~HasGame(games, games'[Len(games')].id)
                     /\ games'[Len(games')].id = req'[r].gameId
                     /\ games'[Len(games')].system_prompt = req'[r].systemPrompt
                  \/ /\ req[r].kind = "delete"
                     /\ req[r].pc = "deleteGame"
                     /\ req'[r].pc = "done"
                     /\ HasGame(games, req[r].gameId)
                     /\ games' = Others(games, req[r].gameId)
        /\ \A r \in Req :
              /\ (Begins(r, "start") /\ Running(r)')
                    => /\ req'[r].calls[1].messages[1]
                            = [role |-> "system", content |-> req'[r].systemPrompt]
                       /\ req'[r].calls[2].messages[1]
                            = [role |-> "system", content |-> req'[r].systemPrompt]
              /\ (Begins(r, "turn") /\ Running(r)')
                    => \E i \in 1..Len(games) :
                          /\ games[i].id = req'[r].gameId
                          /\ req'[r].game = [system_prompt |-> games[i].system_prompt]
              /\ (req[r].kind = "turn" /\ Running(r))
                    => /\ req'[r].game = req[r].game
                       /\ req'[r].calls # <<>> =>
                             \A b \in 1..2 :
                                 req'[r].calls[b].messages[1]
                                   = [role |-> "system", content |-> req[r].game.system_prompt]
              /\ (Begins(r, "games") /\ req'[r].res.status = 200)
                    => /\ Len(req'[r].res.body) = Len(games)
                       /\ \A k \in 1..Len(games), l \in 1..Len(games) :
                             k < l =>
                                 LET x == req'[r].res.body[k]
                                     y == req'[r].res.body[l]
                                 IN  \/ x.created_at > y.created_at
                                     \/ x.created_at = y.created_at /\ x.id < y.id
                       /\ \A i \in 1..Len(games) :
                             \E k \in 1..Len(req'[r].res.body) :
                                 /\ req'[r].res.body[k].id = games[i].id
                                 /\ req'[r].res.body[k].system_prompt = games[i].system_prompt
      ]_vars

\* a turn sent the prompt "P2" its game was started with to both backends,
\* and the game row still holds it
C12_Witness ==
    \E r \in Req :
        /\ req[r].kind = "turn"
        /\ req[r].pc = "done"
        /\ req[r].res.status = 200
        /\ req[r].calls[1].messages[1].content = "P2"
        /\ req[r].calls[2].messages[1].content = "P2"
        /\ \E i \in 1..Len(games) :
              games[i].id = req[r].gameId /\ games[i].system_prompt = "P2"

(***************************************************************************)
(* One client that sends a request only after the previous one was         *)
(* answered, with every statement succeeding: the game of SeqTurns turns.  *)
(***************************************************************************)
SeqTurns == 2
\* rows of one start and SeqTurns turns
SeqMsgs == 2 + 3 * SeqTurns

\* the one request in flight
SeqReq == {CHOOSE r \in Req : TRUE}

NextSeq ==
    \/ /\ Quiescent
       /\ \/ \E r \in SeqReq, p \in Prompts, t \in Seconds(clock) :
                StartInsertIn(MaxGames, SeqMsgs, r, p, t, NoErr)
          \/ \E r \in SeqReq, g \in GameIds, a \in UserActions : TurnLookupIn(SeqMsgs, r, g, a, NoErr)
          \/ \E r \in SeqReq, g \in GameIds : History(r, g, NoErr)
          \/ \E r \in SeqReq : Games(r, NoErr)
    \/ \E r \in SeqReq : StartSave1(r, NoErr)
    \/ \E r \in SeqReq : StartSave2(r, NoErr)
    \/ \E r \in SeqReq, b \in 1..2 : \E o \in Outcomes(b) : Settle(r, b, o)
    \/ \E r \in SeqReq : TurnSaveUser(r, NoErr)
    \/ \E r \in SeqReq : TurnHistory1(r, NoErr)
    \/ \E r \in SeqReq : TurnHistory2(r, NoErr)
    \/ \E r \in SeqReq : TurnSave1(r, NoErr)
    \/ \E r \in SeqReq : TurnSave2(r, NoErr)

SpecSeq == Init /\ [][NextSeq]_vars

\* the branch and role of the k-th row of a game driven sequentially
SeqBranch(k) == IF k <= 2 THEN k ELSE (k - 3) % 3
SeqRole(k) == IF SeqBranch(k) = 0 THEN "user" ELSE "model"
\* the history alternates assistant/user, beginning with assistant
Alternates(history) ==
    \A k \in 1..Len(history) :
        ModelRole(history[k].role) = IF k % 2 = 1 THEN "assistant" ELSE "user"

\* C13: with requests sent one after the other and every statement
\* succeeding, the rows of a game in id order are at every moment a prefix
\* of: intro of branch 1, intro of branch 2, then per turn user (branch 0),
\* reply of branch 1, reply of branch 2; between requests there are 2 + 3n
\* of them; the first two hold the intros the start returned, and the three
\* rows of a turn hold its action and the replies it returned; each branch's
\* history alternates assistant/user from the intro on, 1 + 2n messages.
C13_SequentialRows ==
    /\ \A k \in 1..Len(messages) : messages[k].id = k
    /\ \A g \in GameIds :
          LET rows == SelectMessages(messages, g)
              n == (Len(rows) - 2) \div 3
          IN  /\ \A k \in 1..Len(rows) :
                    /\ rows[k].dm_id = SeqBranch(k)
                    /\ rows[k].role = SeqRole(k)
              /\ (Quiescent /\ rows # <<>>) =>
                    /\ Len(rows) = 2 + 3 * n
                    /\ \A b \in 1..2 :
                          /\ Alternates(getHistory(messages, g, b))
                          /\ Len(getHistory(messages, g, b)) = 1 + 2 * n
              /\ \A r \in Req :
                    /\ (Answered(r, "start", 200) /\ req[r].gameId = g) =>
                          /\ Len(rows) >= 2
                          /\ rows[1].content = req[r].res.body.dm1
                          /\ rows[2].content = req[r].res.body.dm2
                    /\ (Answered(r, "turn", 200) /\ req[r].gameId = g) =>
                          \E t \in 1..n :
                              /\ rows[3 * t].id = req[r].saved[1].id
                              /\ rows[3 * t].content = req[r].userAction
                              /\ rows[3 * t + 1].content = req[r].res.body.dm1
                              /\ rows[3 * t + 2].content = req[r].res.body.dm2

\* the start and both turns of a game have been answered: eight rows, the
\* second turn's being the last three
C13_Witness ==
    /\ Quiescent
    /\ Len(SelectMessages(messages, 1)) = SeqMsgs
    /\ \E r \in Req : Answered(r, "turn", 200) /\ req[r].saved[1].id = SeqMsgs - 2

\* the original statement of C14, for runs without any database error: a
\* history request for an id that has no game row is answered 200 with an
\* empty list
C14_Claim ==
    [][ \A r \in Req :
          (Begins(r, "history") /\ ~HasGame(games, req'[r].gameId) /\ sqlFailures' = 0)
            => /\ req'[r].res.status = 200
               /\ req'[r].res.body = <<>>
      ]_vars

\* C14 (amended): a history request never looks at the games table: when its
\* statement succeeds it is answered 200 with the stored messages of that
\* id in id order, whether or not a game row exists, and 500 only when the
\* statement fails; the list is empty for an id no start has created and for
\* an id without stored messages; the request changes no table, no counter
\* and no other request.
C14_HistoryNoCheck ==
    [][ \A r \in Req :
          Begins(r, "history") =>
            LET g == req'[r].gameId
                ids == {messages[i].id : i \in {j \in 1..Len(messages) : messages[j].game_id = g}}
                body == req'[r].res.body
            IN  /\ UNCHANGED <<games, messages, gamesSeq, clock, messagesSeq>>
                /\ \A o \in Req \ {r} : req'[o] = req[o]
                /\ req'[r].pc = "done"
                /\ sqlFailures' # sqlFailures => req'[r].res.status = 500
                /\ sqlFailures' = sqlFailures =>
                      /\ req'[r].res.status = 200
                      /\ Len(body) = Cardinality(ids)
                      /\ \A k \in 1..Len(body) : body[k] = Row(Kth(ids, k))
                      /\ g > gamesSeq => body = <<>>
                      /\ ~HasMessages(messages, g) => body = <<>>
      ]_vars

\* before any game was created, a history request was answered 200 with an
\* empty list
C14_Witness ==
    /\ gamesSeq = 0
    /\ \E r \in Req :
          /\ Answered(r, "history", 200)
          /\ req[r].res.body = <<>>

\* the request in slot r saved a row of this branch
SavedBranch(r, b) == \E i \in 1..Len(req[r].saved) : req[r].saved[i].dm_id = b

\* the original statement of C15: when a turn has ended with both calls
\* settled and its branch-1 reply insert failed, its branch-2 reply is
\* persisted all the same
C15_Claim ==
    \A r \in Req :
        ( /\ req[r].kind = "turn"
          /\ req[r].pc = "done"
          /\ Settled(r)
          /\ req[r].log # <<>>
          /\ ~SavedBranch(r, 1) )
        => SavedBranch(r, 2)

\* C15 (amended): the reply inserts of a turn run one after the other: the
\* branch-2 insert is issued only when the branch-1 insert has completed
\* without error, so a branch-2 reply is stored only after the turn's
\* branch-1 reply; a failed branch-1 insert ends the request with 500 and
\* the branch-2 reply is not persisted.
C15_RepliesInSequence ==
    \A r \in Req :
        req[r].kind = "turn" =>
            /\ req[r].pc = "save2" =>
                  /\ Len(req[r].saved) = 2
                  /\ req[r].saved[2].dm_id = 1
            /\ \A i \in 1..Len(req[r].saved) :
                  req[r].saved[i].dm_id = 2 =>
                      /\ i = 3
                      /\ req[r].saved[2].dm_id = 1
                      /\ req[r].saved[2].id < req[r].saved[3].id
            /\ (req[r].pc = "done" /\ Settled(r) /\ ~SavedBranch(r, 1)) =>
                  /\ req[r].res.status = 500
                  /\ req[r].res.body.error \in SqlErrors
                  /\ req[r].log # <<>>
                  /\ ~SavedBranch(r, 2)

\* a turn whose calls were both fulfilled ended with 500 at the failed
\* branch-1 insert: only its user message was saved
C15_Witness ==
    \E r \in Req :
        /\ req[r].kind = "turn"
        /\ req[r].pc = "done"
        /\ Settled(r)
        /\ req[r].results[1].status = "fulfilled"
        /\ req[r].results[2].status = "fulfilled"
        /\ Len(req[r].saved) = 1
        /\ req[r].res.status = 500

\* the history holds two user messages in a row
TwoUsers(history) ==
    \E k \in 1..(Len(history) - 1) :
        history[k].role = "user" /\ history[k + 1].role = "user"

\* C16: a turn of a game can begin while another turn of the same game is
\* running (nothing makes it wait); the rows two turns saved are different
\* rows, a turn saves at most three, and every turn answered 200 saved
\* exactly three: its own action for branch 0 and the replies it returned
\* for branches 1 and 2, whatever the other turn did in between.
C16_TurnsNotSerialized ==
    \A r \in Req :
        /\ (req[r].kind = "turn" /\ Running(r)) =>
              \A o \in Req \ {r}, a \in UserActions :
                  (Free(o) /\ HasGame(games, req[r].gameId) /\ Room(3))
                      => ENABLED TurnLookup(o, req[r].gameId, a, NoErr)
        /\ req[r].kind = "turn" =>
              /\ Len(req[r].saved) <= 3
              /\ \A o \in Req \ {r} :
                    \A i \in 1..Len(req[r].saved), j \in 1..Len(req[o].saved) :
                        req[r].saved[i].id # req[o].saved[j].id
        /\ Answered(r, "turn", 200) =>
              /\ Len(req[r].saved) = 3
              /\ \A i \in 1..3 :
                    /\ req[r].saved[i].game_id = req[r].gameId
                    /\ req[r].saved[i].dm_id = i - 1
              /\ req[r].saved[1].content = req[r].userAction
              /\ req[r].saved[2].content = req[r].res.body.dm1
              /\ req[r].saved[3].content = req[r].res.body.dm2

\* two turns of one game were both answered 200 after overlapping: the
\* second turn's user row lies between the first turn's user row and its
\* branch-1 reply, a history handed to a call holds two user messages in a
\* row, and all six rows are stored
C16_Witness ==
    \E r \in Req, o \in Req :
        /\ Answered(r, "turn", 200)
        /\ Answered(o, "turn", 200)
        /\ req[r].gameId = req[o].gameId
        /\ req[r].saved[1].id < req[o].saved[1].id
        /\ req[o].saved[1].id < req[r].saved[2].id
        /\ TwoUsers(req[r].history1) \/ TwoUsers(req[o].history1)
        /\ \A i \in 1..3 : InTable(messages, req[r].saved[i]) /\ InTable(messages, req[o].saved[i])

(***************************************************************************)
(* Several games side by side: any interleaving of the starts, turns and   *)
(* deletes of IsoGames games, every statement succeeding, each game        *)
(* started in a later second than the one before.                          *)
(***************************************************************************)
IsoGames == 2
IsoMsgs == 7
IsoGameIds == 1..IsoGames
\* the prompt the client supplies for the next game: neighbours differ
IsoPrompt == IF gamesSeq % 2 = 0 THEN "P1" ELSE "P2"

NextIso ==
    \/ \E r \in Req : StartInsertIn(IsoGames, IsoMsgs, r, IsoPrompt, clock + 1, NoErr)
    \/ \E r \in Req : StartSave1(r, NoErr)
    \/ \E r \in Req : StartSave2(r, NoErr)
    \/ \E r \in Req, b \in 1..2 : \E o \in Outcomes(b) : Settle(r, b, o)
    \/ \E r \in Req, g \in IsoGameIds, a \in UserActions : TurnLookupIn(IsoMsgs, r, g, a, NoErr)
    \/ \E r \in Req : TurnSaveUser(r, NoErr)
    \/ \E r \in Req : TurnHistory1(r, NoErr)
    \/ \E r \in Req : TurnHistory2(r, NoErr)
    \/ \E r \in Req : TurnSave1(r, NoErr)
    \/ \E r \in Req : TurnSave2(r, NoErr)
    \/ \E r \in Req, g \in IsoGameIds : DeleteMsgs(r, g, NoErr)
    \/ \E r \in Req : DeleteGameRow(r, NoErr)

SpecIso == Init /\ [][NextIso]_vars

\* the prompt stored for game g
PromptOf(g) == games[CHOOSE i \in 1..Len(games) : games[i].id = g].system_prompt

\* C18: a step changes the stored messages of a game g only when the
\* request taking the step is a start, turn or delete of g, and no stored
\* message is ever modified; the history a turn of g reads for branch b is
\* what getHistory gives on the rows of g alone, one entry per stored row of
\* g in branch 0 or b; the sequence sent to backend b is built from the
\* prompt of g's game row, that history and the turn's input.
C18_GamesIsolated ==
    [][ /\ \A i \in 1..Len(messages), j \in 1..Len(messages') :
              messages'[j].id = messages[i].id => messages'[j] = messages[i]
        /\ \A g \in IsoGameIds :
              SelectMessages(messages', g) # SelectMessages(messages, g) =>
                  \E r \in Req :
                      /\ req'[r] # req[r]
                      /\ req'[r].kind \in {"start", "turn", "delete"}
                      /\ req'[r].gameId = g
        /\ \A r \in Req :
              LET g == req[r].gameId
                  own == SelectMessages(messages, g)
              IN  /\ (req[r].kind = "turn" /\ req[r].pc = "history1" /\ req'[r].pc = "history2")
                        => /\ req'[r].history1 = getHistory(own, g, 1)
                           /\ Len(req'[r].history1) = Cardinality(Visible(g, 1))
                  /\ (req[r].kind = "turn" /\ req[r].pc = "history2" /\ req'[r].pc = "calls")
                        => /\ req'[r].history2 = getHistory(own, g, 2)
                           /\ Len(req'[r].history2) = Cardinality(Visible(g, 2))
                           /\ req'[r].calls =
                                 <<callLlamaFastViaGroq(req[r].game.system_prompt,
                                                        req[r].history1, req[r].userAction),
                                   callLlamaSmartViaGroq(req[r].game.system_prompt,
                                                         req'[r].history2, req[r].userAction)>>
                  /\ (Begins(r, "turn") /\ Running(r)')
                        => req'[r].game.system_prompt = PromptOf(req'[r].gameId)
      ]_vars

\* a turn of game 2 has read both histories while game 1 has stored rows:
\* the histories hold the intro of game 2 and the user message only, and the
\* calls carry the prompt of game 2, which is not the prompt of game 1
C18_Witness ==
    \E r \in Req :
        /\ req[r].kind = "turn"
        /\ req[r].pc = "calls"
        /\ req[r].gameId = 2
        /\ HasGame(games, 1)
        /\ Len(SelectMessages(messages, 1)) = 2
        /\ Len(req[r].history1) = 2
        /\ Len(req[r].history2) = 2
        /\ req[r].calls[1].messages[1].content # PromptOf(1)

(***************************************************************************)
(* The event loop is fair to the handlers: a continuation whose statement  *)
(* has completed runs.  Nothing makes a backend answer.  Every route,      *)
(* every statement succeeding.                                             *)
(***************************************************************************)
NextLive ==
    \/ \E r \in Req, p \in Prompts, t \in Seconds(clock) : StartInsert(r, p, t, NoErr)
    \/ \E r \in Req : StartSave1(r, NoErr)
    \/ \E r \in Req : StartSave2(r, NoErr)
    \/ \E r \in Req, b \in 1..2 : \E o \in Outcomes(b) : Settle(r, b, o)
    \/ \E r \in Req, g \in GameIds, a \in UserActions : TurnLookup(r, g, a, NoErr)
    \/ \E r \in Req : TurnSaveUser(r, NoErr)
    \/ \E r \in Req : TurnHistory1(r, NoErr)
    \/ \E r \in Req : TurnHistory2(r, NoErr)
    \/ \E r \in Req : TurnSave1(r, NoErr)
    \/ \E r \in Req : TurnSave2(r, NoErr)
    \/ \E r \in Req, g \in GameIds : History(r, g, NoErr)
    \/ \E r \in Req : Games(r, NoErr)
    \/ \E r \in Req, g \in GameIds : DeleteMsgs(r, g, NoErr)
    \/ \E r \in Req : DeleteGameRow(r, NoErr)

\* the next step of the handler in slot r once its awaited statement is done
Continue(r) ==
    \/ StartSave1(r, NoErr)
    \/ StartSave2(r, NoErr)
    \/ TurnSaveUser(r, NoErr)
    \/ TurnHistory1(r, NoErr)
    \/ TurnHistory2(r, NoErr)
    \/ TurnSave1(r, NoErr)
    \/ TurnSave2(r, NoErr)
    \/ DeleteGameRow(r, NoErr)

SpecLive == Init /\ [][NextLive]_vars /\ \A r \in Req : WF_vars(Continue(r))

\* the turn in slot r is at one of these points
TurnAt(r, pcs) == req[r].kind = "turn" /\ req[r].pc \in pcs

\* the original statement of C17 for a turn one of whose calls has not
\* settled: it has sent no response, it has saved no reply, and its user
\* message is stored
C17_Claim ==
    \A r \in Req :
        TurnAt(r, {"calls"}) =>
            /\ req[r].res = NoRes
            /\ Len(req[r].saved) = 1
            /\ InTable(messages, req[r].saved[1])

\* C17 (amended): a turn on an existing game issues its two calls, one per
\* backend; once both have settled it sends its one response, 200; while a
\* call has not settled it has sent no response and saved no reply, also
\* not the reply of a call that was fulfilled; a row inserted meanwhile is
\* another request's; the turn itself never removes a stored row, and its
\* user message leaves the table only in the DELETE FROM messages of a
\* delete request for its game; it responds only with both calls settled;
\* the calls of a turn are never issued again and a settled result never
\* changes.
C17_TurnResponds ==
    /\ \A r \in Req : TurnAt(r, {"saveUser", "history1", "history2"}) ~> TurnAt(r, {"calls"})
    /\ \A r \in Req : TurnAt(r, {"save1"}) ~> Answered(r, "turn", 200)
    /\ [](\A r \in Req :
            /\ TurnAt(r, {"calls"}) =>
                  /\ ~Settled(r)
                  /\ req[r].res = NoRes
                  /\ Len(req[r].saved) = 1
            /\ (TurnAt(r, {"done"}) /\ req[r].game # Undefined) =>
                  /\ Settled(r)
                  /\ req[r].res.status = 200
            /\ TurnAt(r, {"calls", "save1", "save2", "done"}) /\ req[r].game # Undefined =>
                  /\ Len(req[r].calls) = 2
                  /\ req[r].calls[1].model # req[r].calls[2].model)
    /\ [][ \A r \in Req :
             /\ (req[r].kind = "turn" /\ Running(r) /\ req[r].calls # <<>>) =>
                   /\ req'[r].calls = req[r].calls
                   /\ \A b \in 1..2 :
                         req[r].results[b].status # "pending"
                             => req'[r].results[b] = req[r].results[b]
                   /\ req[r].res = NoRes
                   /\ req'[r].res # NoRes <=> req'[r].pc = "done"
                   /\ (req[r].pc = "calls" /\ messages' # messages) => req'[r] = req[r]
             /\ (req'[r].kind = "turn" /\ req'[r] # req[r]) =>
                   \A i \in 1..Len(messages) : InTable(messages', messages[i])
             /\ ( /\ req[r].kind = "turn" /\ Running(r) /\ req[r].saved # <<>>
                  /\ InTable(messages, req[r].saved[1])
                  /\ ~InTable(messages', req[r].saved[1]) ) =>
                   \E o \in Req \ {r} :
                       /\ Begins(o, "delete")
                       /\ req'[o].gameId = req[r].gameId
                       /\ req'[r] = req[r]
         ]_vars

\* a turn hangs: its first call was fulfilled, its second has not settled;
\* no response, only the user message saved, and a delete of the game has
\* removed that message from the table
C17_Witness ==
    \E r \in Req :
        /\ TurnAt(r, {"calls"})
        /\ req[r].results[1].status = "fulfilled"
        /\ req[r].results[2].status = "pending"
        /\ req[r].res = NoRes
        /\ Len(req[r].saved) = 1
        /\ ~InTable(messages, req[r].saved[1])

====
